---- MODULE Spec2Model ----
(***************************************************************************)
(* large_nbt_fixer: a span-tracking NBT decoder (NBTReader) and the main   *)
(* pipeline that ranks the children of the "Inventory" list by encoded     *)
(* size and drains one child's byte span from the raw buffer.              *)
(*                                                                         *)
(* Bytes are the naturals 0..255.  A buffer is a sequence of bytes; byte   *)
(* offset p of the Rust code is element p+1 of the sequence.  TLC's        *)
(* integers are 32 bits wide, so i8/i16/i32 are decoded to integers while  *)
(* 64-bit payloads (Long, Double, LongArray elements) are kept as their    *)
(* eight big-endian digits.                                                *)
(***************************************************************************)
EXTENDS Integers, Sequences, FiniteSets

(***************************************************************************)
(* Results.  Rust's Result<T> is Ok or Err; a panic unwinds out of main.   *)
(***************************************************************************)
Ok(v, p) == [st |-> "ok", v |-> v, pos |-> p]

Err(w) == [st |-> "err", why |-> w]

Panic(w) == [st |-> "panic", why |-> w]

(***************************************************************************)
(* Big-endian two's complement conversions (byteorder::ReadBytesExt).      *)
(***************************************************************************)
I8(b) == IF b >= 128 THEN b - 256 ELSE b

I16(s) == I8(s[1]) * 256 + s[2]

I32(s) == I8(s[1]) * 16777216 + s[2] * 65536 + s[3] * 256 + s[4]

\* Read::read_exact on Cursor<Vec<u8>>: n bytes from offset pos, or
\* ErrorKind::UnexpectedEof when fewer than n remain.
ReadExact(buf, pos, n) ==
  IF Len(buf) - pos >= n
    THEN Ok(SubSeq(buf, pos + 1, pos + n), pos + n)
    ELSE Err("UnexpectedEof")

ReadI8(buf, pos) ==
  LET r == ReadExact(buf, pos, 1)
  IN  IF r.st = "ok" THEN Ok(I8(r.v[1]), r.pos) ELSE r

ReadI16(buf, pos) ==
  LET r == ReadExact(buf, pos, 2)
  IN  IF r.st = "ok" THEN Ok(I16(r.v), r.pos) ELSE r

ReadI32(buf, pos) ==
  LET r == ReadExact(buf, pos, 4)
  IN  IF r.st = "ok" THEN Ok(I32(r.v), r.pos) ELSE r

\* The element of a fixed-width array: i8 and i32 as integers, i64 as digits.
Element(w, s) == IF w = 1 THEN I8(s[1]) ELSE IF w = 4 THEN I32(s) ELSE s

(***************************************************************************)
(* String::from_utf8: well-formed UTF-8 byte sequences.                    *)
(***************************************************************************)
IsCont(s, i) == i <= Len(s) /\ s[i] \in 128..191

RECURSIVE IsUtf8(_)
IsUtf8(s) ==
  IF s = <<>> THEN TRUE
  ELSE LET b == s[1]
           Rest(k) == IsUtf8(SubSeq(s, k + 1, Len(s)))
       IN  IF b < 128 THEN Rest(1)
           ELSE IF b \in 194..223 THEN IsCont(s, 2) /\ Rest(2)
           ELSE IF b = 224
             THEN Len(s) >= 2 /\ s[2] \in 160..191 /\ IsCont(s, 3) /\ Rest(3)
           ELSE IF b \in (225..236) \cup (238..239)
             THEN IsCont(s, 2) /\ IsCont(s, 3) /\ Rest(3)
           ELSE IF b = 237
             THEN Len(s) >= 2 /\ s[2] \in 128..159 /\ IsCont(s, 3) /\ Rest(3)
           ELSE IF b = 240
             THEN Len(s) >= 2 /\ s[2] \in 144..191 /\ IsCont(s, 3)
                  /\ IsCont(s, 4) /\ Rest(4)
           ELSE IF b \in 241..243
             THEN IsCont(s, 2) /\ IsCont(s, 3) /\ IsCont(s, 4) /\ Rest(4)
           ELSE IF b = 244
             THEN Len(s) >= 2 /\ s[2] \in 128..143 /\ IsCont(s, 3)
                  /\ IsCont(s, 4) /\ Rest(4)
           ELSE FALSE

(***************************************************************************)
(* enum ValueType and struct NBTValue.                                     *)
(***************************************************************************)
ValueType(kind, v) == [kind |-> kind, v |-> v]

NBTValue(start, end, ty) == [start |-> start, end |-> end, ty |-> ty]

size(n) == n.end - n.start

\* The variant each entry of READ_FNS produces, by table index.
KindOf(id) ==
  CASE id = 1 -> "Byte"
    [] id = 2 -> "Short"
    [] id = 3 -> "Int"
    [] id = 4 -> "Long"
    [] id = 5 -> "Float"
    [] id = 6 -> "Double"
    [] id = 7 -> "ByteArray"
    [] id = 8 -> "String"
    [] id = 9 -> "List"
    [] id = 10 -> "Compound"
    [] id = 11 -> "IntArray"
    [] id = 12 -> "LongArray"
    [] OTHER -> "Zero"

\* READ_FNS.len()
NumReadFns == 13

\* READ_FNS[type_id] is in bounds.  type_id is carried as the i8 that was
\* read: `as usize` sign-extends a negative i8 to at least 2^64 - 128, which
\* is past the end of the table exactly as every id >= 13 is.
InTable(type_id) == type_id >= 0 /\ type_id < NumReadFns

(***************************************************************************)
(* The readers.  Each takes the buffer and the cursor position and gives   *)
(* Ok(ValueType, new position), Err or Panic.                              *)
(***************************************************************************)
read_zero(buf, pos) == Panic("unreachable")

read_byte(buf, pos) ==
  LET r == ReadI8(buf, pos)
  IN  IF r.st = "ok" THEN Ok(ValueType("Byte", r.v), r.pos) ELSE r

read_short(buf, pos) ==
  LET r == ReadI16(buf, pos)
  IN  IF r.st = "ok" THEN Ok(ValueType("Short", r.v), r.pos) ELSE r

read_int(buf, pos) ==
  LET r == ReadI32(buf, pos)
  IN  IF r.st = "ok" THEN Ok(ValueType("Int", r.v), r.pos) ELSE r

read_long(buf, pos) ==
  LET r == ReadExact(buf, pos, 8)
  IN  IF r.st = "ok" THEN Ok(ValueType("Long", r.v), r.pos) ELSE r

read_float(buf, pos) ==
  LET r == ReadExact(buf, pos, 4)
  IN  IF r.st = "ok" THEN Ok(ValueType("Float", r.v), r.pos) ELSE r

read_double(buf, pos) ==
  LET r == ReadExact(buf, pos, 8)
  IN  IF r.st = "ok" THEN Ok(ValueType("Double", r.v), r.pos) ELSE r

\* `for _ in 0..length { items.push(read of w bytes ?) }`: an empty range
\* when length <= 0.
RECURSIVE ReadElements(_, _, _, _, _)
ReadElements(buf, pos, n, w, items) ==
  IF n <= 0 THEN Ok(items, pos)
  ELSE LET r == ReadExact(buf, pos, w)
       IN  IF r.st = "ok"
             THEN ReadElements(buf, r.pos, n - 1, w, Append(items, Element(w, r.v)))
             ELSE r

ReadArray(buf, pos, w, kind) ==
  LET length == ReadI32(buf, pos)
  IN  IF length.st # "ok" THEN length
      ELSE LET r == ReadElements(buf, length.pos, length.v, w, <<>>)
           IN  IF r.st = "ok" THEN Ok(ValueType(kind, r.v), r.pos) ELSE r

read_byte_array(buf, pos) == ReadArray(buf, pos, 1, "ByteArray")

read_int_array(buf, pos) == ReadArray(buf, pos, 4, "IntArray")

read_long_array(buf, pos) == ReadArray(buf, pos, 8, "LongArray")

\* read_name: i16 length, `vec![0; length as usize]`, read_exact, from_utf8.
\* A negative length sign-extends to a usize above isize::MAX and the
\* allocation panics with "capacity overflow".
read_name(buf, pos) ==
  LET length == ReadI16(buf, pos)
  IN  IF length.st # "ok" THEN length
      ELSE IF length.v < 0 THEN Panic("capacity overflow")
      ELSE LET bytes == ReadExact(buf, length.pos, length.v)
           IN  IF bytes.st # "ok" THEN bytes
               ELSE IF ~IsUtf8(bytes.v) THEN Err("FromUtf8Error")
               ELSE bytes

read_string(buf, pos) ==
  LET r == read_name(buf, pos)
  IN  IF r.st = "ok" THEN Ok(ValueType("String", r.v), r.pos) ELSE r

RECURSIVE read_value(_, _, _)
RECURSIVE read_list(_, _)
RECURSIVE read_compound(_, _)

\* reader(self) for reader = READ_FNS[type_id], type_id in the table.
Reader(type_id, buf, pos) ==
  CASE type_id = 0 -> read_zero(buf, pos)
    [] type_id = 1 -> read_byte(buf, pos)
    [] type_id = 2 -> read_short(buf, pos)
    [] type_id = 3 -> read_int(buf, pos)
    [] type_id = 4 -> read_long(buf, pos)
    [] type_id = 5 -> read_float(buf, pos)
    [] type_id = 6 -> read_double(buf, pos)
    [] type_id = 7 -> read_byte_array(buf, pos)
    [] type_id = 8 -> read_string(buf, pos)
    [] type_id = 9 -> read_list(buf, pos)
    [] type_id = 10 -> read_compound(buf, pos)
    [] type_id = 11 -> read_int_array(buf, pos)
    [] type_id = 12 -> read_long_array(buf, pos)

\* A read_value that takes `start` after the reader has run.
read_value_start_after(buf, pos, type_id) ==
  IF ~InTable(type_id) THEN Panic("index out of bounds")
  ELSE LET inner == Reader(type_id, buf, pos)
       IN  IF inner.st = "ok"
             THEN Ok(NBTValue(inner.pos, inner.pos, inner.v), inner.pos)
             ELSE inner

\* read_value: the table lookup panics out of bounds; the span is the cursor
\* position before and after the reader.  Gives Ok(NBTValue, new position).
read_value(buf, pos, type_id) ==
  IF ~InTable(type_id) THEN Panic("index out of bounds")
  ELSE LET inner == Reader(type_id, buf, pos)
       IN  IF inner.st = "ok"
             THEN Ok(NBTValue(pos, inner.pos, inner.v), inner.pos)
             ELSE inner

\* The loop of read_list over 1..length.
RECURSIVE ReadItems_from_one(_, _, _, _, _)
ReadItems_from_one(buf, pos, n, type_id, items) ==
  IF n <= 1 THEN Ok(items, pos)
  ELSE LET r == read_value(buf, pos, type_id)
       IN  IF r.st = "ok"
             THEN ReadItems_from_one(buf, r.pos, n - 1, type_id, Append(items, r.v))
             ELSE r

\* `for _ in 0..length { items.push(self.read_value(type_id)?) }`
RECURSIVE ReadItems(_, _, _, _, _)
ReadItems(buf, pos, n, type_id, items) ==
  IF n <= 0 THEN Ok(items, pos)
  ELSE LET r == read_value(buf, pos, type_id)
       IN  IF r.st = "ok"
             THEN ReadItems(buf, r.pos, n - 1, type_id, Append(items, r.v))
             ELSE r

read_list(buf, pos) ==
  LET type_id == ReadI8(buf, pos)
  IN  IF type_id.st # "ok" THEN type_id
      ELSE LET length == ReadI32(buf, type_id.pos)
           IN  IF length.st # "ok" THEN length
               ELSE LET r == ReadItems(buf, length.pos, length.v, type_id.v, <<>>)
                    IN  IF r.st = "ok"
                          THEN Ok(ValueType("List", r.v), r.pos)
                          ELSE r

\* HashMap::insert: the last write of a name wins.
Insert(compound, name, value) ==
  [k \in DOMAIN compound \cup {name} |->
     IF k = name THEN value ELSE compound[k]]

\* The loop of read_compound: the tag id is read with unwrap(), then the
\* name, then the value; id 0 ends the compound.
RECURSIVE ReadFields(_, _, _)
ReadFields(buf, pos, compound) ==
  LET type_id == ReadI8(buf, pos)
  IN  IF type_id.st # "ok" THEN Panic("unwrap on UnexpectedEof")
      ELSE IF type_id.v = 0 THEN Ok(ValueType("Compound", compound), type_id.pos)
      ELSE LET name == read_name(buf, type_id.pos)
           IN  IF name.st # "ok" THEN name
               ELSE LET value == read_value(buf, name.pos, type_id.v)
                    IN  IF value.st # "ok" THEN value
                        ELSE ReadFields(buf, value.pos,
                                        Insert(compound, name.v, value.v))

read_compound(buf, pos) == ReadFields(buf, pos, <<>>)

\* NBTReader::new(data).read()
read(data) == read_value(data, 0, 10)

(***************************************************************************)
(* Navigation, ranking and selection in main.                              *)
(***************************************************************************)
\* get_variant!(expression, variant): the payload, or bail!("incorrect variant").
get_variant(ty, variant) ==
  IF ty.kind = variant THEN Ok(ty.v, 0) ELSE Err("incorrect variant")

\* HashMap's Index: map[key] panics when the key is absent.
Index(map, key) ==
  IF key \in DOMAIN map THEN Ok(map[key], 0) ELSE Panic("key not found")

\* "Inventory" in UTF-8.
InventoryName == <<73, 110, 118, 101, 110, 116, 111, 114, 121>>

\* Lines 219-221: Ok(the NBTValue compound["Inventory"], a List), or the
\* first failure on the way.
Navigate(n) ==
  LET root == get_variant(n.ty, "Compound")
  IN  IF root.st # "ok" THEN root
      ELSE LET f1 == Index(root.v, <<>>)
           IN  IF f1.st # "ok" THEN f1
               ELSE LET compound == get_variant(f1.v.ty, "Compound")
                    IN  IF compound.st # "ok" THEN compound
                        ELSE LET f2 == Index(compound.v, InventoryName)
                             IN  IF f2.st # "ok" THEN f2
                                 ELSE LET l == get_variant(f2.v.ty, "List")
                                      IN  IF l.st # "ok" THEN l ELSE Ok(f2.v, 0)

ItemEntry(index, entry) ==
  [index |-> index, size |-> size(entry), start |-> entry.start, end |-> entry.end]

\* for (index, entry) in inventory.iter().enumerate() { items.push(..) }
Entries(inventory) == [i \in 1..Len(inventory) |-> ItemEntry(i - 1, inventory[i])]

\* One insertion of a stable ascending sort: x goes after every element
\* whose key is not greater than its own.
InsertByKey(sorted, x) ==
  LET n == Cardinality({i \in DOMAIN sorted : sorted[i].size <= x.size})
  IN  SubSeq(sorted, 1, n) \o <<x>> \o SubSeq(sorted, n + 1, Len(sorted))

\* items.sort_by_key(|item| item.size): stable, ascending.
RECURSIVE SortFrom(_, _, _)
SortFrom(items, i, sorted) ==
  IF i > Len(items) THEN sorted
  ELSE SortFrom(items, i + 1, InsertByKey(sorted, items[i]))

sort_by_key(items) == SortFrom(items, 1, <<>>)

\* items.reverse()
reverse(items) == [i \in 1..Len(items) |-> items[Len(items) + 1 - i]]

\* A ranking without the is_empty check.
Rank_unchecked(inventory) == Ok(reverse(sort_by_key(Entries(inventory))), 0)

\* Lines 223-241: the ranked entries, or bail!("Inventory is empty").
Rank(inventory) ==
  LET items == Entries(inventory)
  IN  IF items = <<>> THEN Err("Inventory is empty")
      ELSE Ok(reverse(sort_by_key(items)), 0)

\* items.iter().find(|item| item.index == n).context("Slot not found")
Find(items, n) ==
  LET hits == {i \in DOMAIN items : items[i].index = n}
  IN  IF hits = {} THEN Err("Slot not found")
      ELSE Ok(items[CHOOSE i \in hits : \A j \in hits : i <= j], 0)

\* data.drain(start..=end)
drain_inclusive(buf, start, end) ==
  SubSeq(buf, 1, start) \o SubSeq(buf, end + 2, Len(buf))

\* data.drain(start..end): the bytes before start followed by those from end.
drain(buf, start, end) == SubSeq(buf, 1, start) \o SubSeq(buf, end + 1, Len(buf))

(***************************************************************************)
(* The files main is run on.  A file is any byte string; the ones drawn    *)
(* here are all short strings over a few bytes, and strings that begin     *)
(* with the header of a player.dat (a Compound named "" holding a field    *)
(* named "Inventory") followed by a short body.                            *)
(***************************************************************************)
MaxRaw == 5

MaxTail == 6

MaxItems == 3

MaxSlot == 3

Seqs(S, n) == UNION {[1..k -> S] : k \in 0..n}

RawBytes == {0, 1, 9, 10, 255}

TailBytes == {0, 1, 255}

ElemKinds == {0, 1, 2, 3, 4, 7, 8, 9, 10, 11, 13, 255}

FieldKinds == {1, 8, 10, 12}

Counts == {-1, 0, 1, 2}

\* Encoded list elements of three sizes: the texts "", "a" and "ab"; and
\* the compounds {}, {"": Byte 7}, {"a": List of the Bytes 5 and 7} and one
\* that names "" twice (Byte 7, then Byte 5).
TextElems == {<<0, 0>>, <<0, 1, 97>>, <<0, 2, 97, 98>>}

CompoundElems ==
  { <<0>>,
    <<1, 0, 0, 7, 0>>,
    <<9, 0, 1, 97, 1, 0, 0, 0, 2, 5, 7, 0>>,
    <<1, 0, 0, 7, 1, 0, 0, 5, 0>> }

\* The big-endian bytes of an i32 count of small magnitude.
Count(c) == IF c < 0 THEN <<255, 255, 255, 256 + c>> ELSE <<0, 0, 0, c>>

\* Tag id 10 and the empty name, then tag id k and the name "Inventory".
Header(k) == <<10, 0, 0, k, 0, 9>> \o InventoryName

RECURSIVE Concat(_)
Concat(ws) == IF ws = <<>> THEN <<>> ELSE ws[1] \o Concat(Tail(ws))

RawFiles == Seqs(RawBytes, MaxRaw)

ListFiles ==
  {Header(9) \o <<k>> \o Count(c) \o t :
     k \in ElemKinds, c \in Counts, t \in Seqs(TailBytes, MaxTail)}

FieldFiles == {Header(k) \o t : k \in FieldKinds, t \in Seqs(TailBytes, MaxTail)}

\* A well-formed Inventory list of up to MaxItems elements of kind k.
ItemFiles(k, elems) ==
  {Header(9) \o <<k>> \o Count(Len(ws)) \o Concat(ws) \o <<0>> :
     ws \in Seqs(elems, MaxItems)}

Files ==
  RawFiles \cup ListFiles \cup FieldFiles
    \cup ItemFiles(8, TextElems) \cup ItemFiles(10, CompoundElems)

\* What the user types at the prompt: a slot number, or (-1) text that
\* does not parse as a usize.
Inputs == -1..MaxSlot

(***************************************************************************)
(* main as a state machine.  pc names the step main is about to take.      *)
(***************************************************************************)
VARIABLES file, data, pc, nbt, inventory, items, item, error, output

vars == <<file, data, pc, nbt, inventory, items, item, error, output>>

None == [st |-> "none"]

\* Lines 210-216: the decompressed file with one 0 byte pushed.
Init ==
  /\ file \in Files
  /\ data = Append(file, 0)
  /\ pc = "read"
  /\ nbt = None
  /\ inventory = None
  /\ items = <<>>
  /\ item = None
  /\ error = None
  /\ output = None

\* `?` and bail! return the error from main; a panic aborts it.
Fail(r) ==
  /\ pc' = (IF r.st = "panic" THEN "panicked" ELSE "failed")
  /\ error' = [st |-> r.st, why |-> r.why, step |-> pc]

\* Line 218: NBTReader::new(data.clone()).read()?
Read ==
  /\ pc = "read"
  /\ LET r == read(data)
     IN  IF r.st = "ok"
           THEN /\ nbt' = r.v
                /\ pc' = "navigate"
                /\ UNCHANGED error
           ELSE /\ Fail(r)
                /\ UNCHANGED nbt
  /\ UNCHANGED <<file, data, inventory, items, item, output>>

\* Lines 219-221.
NavigateStep ==
  /\ pc = "navigate"
  /\ LET r == Navigate(nbt)
     IN  IF r.st = "ok"
           THEN /\ inventory' = r.v
                /\ pc' = "rank"
                /\ UNCHANGED error
           ELSE /\ Fail(r)
                /\ UNCHANGED inventory
  /\ UNCHANGED <<file, data, nbt, items, item, output>>

\* Lines 223-244.
RankStep ==
  /\ pc = "rank"
  /\ LET r == Rank(inventory.ty.v)
     IN  IF r.st = "ok"
           THEN /\ items' = r.v
                /\ pc' = "select"
                /\ UNCHANGED error
           ELSE /\ Fail(r)
                /\ UNCHANGED items
  /\ UNCHANGED <<file, data, nbt, inventory, item, output>>

\* Lines 246-253: the prompt, parse::<usize>()? and the search of the slot.
Select(n) ==
  /\ pc = "select"
  /\ LET r == IF n < 0 THEN Err("ParseIntError") ELSE Find(items, n)
     IN  IF r.st = "ok"
           THEN /\ item' = r.v
                /\ pc' = "delete"
                /\ UNCHANGED error
           ELSE /\ Fail(r)
                /\ UNCHANGED item
  /\ UNCHANGED <<file, data, nbt, inventory, items, output>>

\* Line 255: data.drain(item.start..item.end)
Delete ==
  /\ pc = "delete"
  /\ data' = drain(data, item.start, item.end)
  /\ pc' = "write"
  /\ UNCHANGED <<file, nbt, inventory, items, item, error, output>>

\* Lines 257-263: File::create(path)? and encoder.write_all(&data)?.  The
\* file system may refuse either: a refused create leaves the file as it
\* was, a refused write leaves it truncated.
Write ==
  /\ pc = "write"
  /\ \E io \in {"create refused", "write refused", "ok"} :
       IF io = "ok"
         THEN /\ output' = [st |-> "written", bytes |-> data]
              /\ pc' = "done"
              /\ UNCHANGED error
         ELSE /\ Fail(Err(io))
              /\ output' = (IF io = "write refused"
                              THEN [st |-> "truncated"]
                              ELSE output)
  /\ UNCHANGED <<file, data, nbt, inventory, items, item>>

Next ==
  \/ Read
  \/ NavigateStep
  \/ RankStep
  \/ \E n \in Inputs : Select(n)
  \/ Delete
  \/ Write

Spec == Init /\ [][Next]_vars

(***************************************************************************)
(* Vocabulary of the properties.                                           *)
(***************************************************************************)
\* The buffer the decoder was given: data as it was at line 218.
Original == Append(file, 0)

\* The decode of line 218 returned Ok.
Decoded == "ty" \in DOMAIN nbt

\* Navigation returned the Inventory list.
Navigated == "ty" \in DOMAIN inventory

Failed == pc \in {"failed", "panicked"}

FailedAt(step) == Failed /\ error.step = step

\* Line 255 has run.
Patched == pc \in {"write", "done"} \/ FailedAt("write")

\* The table index whose reader produces the variant.
IdOf(kind) == CHOOSE id \in 1..(NumReadFns - 1) : KindOf(id) = kind

\* b is a with every span moved down by d, values equal at every depth.
RECURSIVE SameValue(_, _, _)
SameValue(a, b, d) ==
  /\ a.start = b.start + d
  /\ a.end = b.end + d
  /\ a.ty.kind = b.ty.kind
  /\ CASE a.ty.kind = "List" ->
            /\ Len(a.ty.v) = Len(b.ty.v)
            /\ \A i \in DOMAIN a.ty.v : SameValue(a.ty.v[i], b.ty.v[i], d)
       [] a.ty.kind = "Compound" ->
            /\ DOMAIN a.ty.v = DOMAIN b.ty.v
            /\ \A k \in DOMAIN a.ty.v : SameValue(a.ty.v[k], b.ty.v[k], d)
       [] OTHER -> a.ty.v = b.ty.v

\* Decoding the node's own bytes alone gives the node back and uses them all.
SpanExact(buf, n) ==
  /\ 0 <= n.start /\ n.start <= n.end /\ n.end <= Len(buf)
  /\ LET r == read_value(SubSeq(buf, n.start + 1, n.end), 0, IdOf(n.ty.kind))
     IN  /\ r.st = "ok"
         /\ r.pos = n.end - n.start
         /\ SameValue(n, r.v, n.start)

\* The tag id byte and the length-prefixed name of field k of a compound
\* lie right before the field's span, inside the compound's.
HeaderExcluded(buf, c, k) ==
  LET n == c.ty.v[k]
      h == n.start - Len(k) - 3
  IN  /\ h >= c.start
      /\ n.end < c.end
      /\ I8(buf[h + 1]) = IdOf(n.ty.kind)
      /\ I16(SubSeq(buf, h + 2, h + 3)) = Len(k)
      /\ SubSeq(buf, h + 4, n.start) = k

RECURSIVE AllSpansExact(_, _)
AllSpansExact(buf, n) ==
  /\ SpanExact(buf, n)
  /\ CASE n.ty.kind = "List" ->
            \A i \in DOMAIN n.ty.v : AllSpansExact(buf, n.ty.v[i])
       [] n.ty.kind = "Compound" ->
            \A k \in DOMAIN n.ty.v :
               HeaderExcluded(buf, n, k) /\ AllSpansExact(buf, n.ty.v[k])
       [] OTHER -> TRUE

\* C1. Span exactness: every node of a successful decode, at any depth, has
\* 0 <= start <= end <= len(buffer); decoding buffer[start, end) alone with
\* the node's tag kind gives an equal value and consumes exactly end - start
\* bytes; a Compound field's span excludes its tag id byte and its name.
C1_SpanExactness == Decoded => AllSpansExact(Original, nbt)

\* A decode that reached the Inventory list with two children or more: the
\* tree has a root, a nested Compound, a List and its elements.
C1_Witness == pc = "select" /\ Len(items) >= 2 /\ inventory.start >= 15

\* The law for one buffer and one span; out is the buffer after the deletion.
DrainLaw(buf, s, e, out) ==
  /\ Len(out) = Len(buf) - (e - s)
  /\ SubSeq(out, 1, s) = SubSeq(buf, 1, s)
  /\ SubSeq(out, s + 1, Len(out)) = SubSeq(buf, e + 1, Len(buf))

\* C2. Patch length law: deleting any span 0 <= start <= end <= len of the
\* buffer gives a buffer shorter by end - start whose bytes before start and
\* from end on are the original ones; after main's deletion this holds of
\* the chosen entry's span, and the count field of the Inventory list still
\* holds the old number of children.
C2_PatchLengthLaw ==
  /\ pc = "delete" =>
        \A s, e \in 0..Len(data) : s <= e => DrainLaw(data, s, e, drain(data, s, e))
  /\ Patched =>
        /\ 0 <= item.start /\ item.start <= item.end /\ item.end <= Len(Original)
        /\ DrainLaw(Original, item.start, item.end, data)
        /\ I32(SubSeq(data, inventory.start + 2, inventory.start + 5))
             = Len(inventory.ty.v)

\* A deletion of a slot that is not the last one of a list of several.
C2_Witness ==
  /\ pc = "done"
  /\ Len(items) >= 2
  /\ item.index = 0
  /\ item.end > item.start
  /\ Len(data) < Len(Original)

Descending(r) == \A i, j \in DOMAIN r : i < j => r[i].size >= r[j].size

TiesInIndexOrder(r) ==
  \A i, j \in DOMAIN r : (i < j /\ r[i].size = r[j].size) => r[i].index < r[j].index

OnePerChild(r, children) ==
  /\ Len(r) = Len(children)
  /\ \A i \in DOMAIN children :
       \E j \in DOMAIN r : r[j] = ItemEntry(i - 1, children[i])

\* C3. Ranking stability: rank yields one entry per child (index, size,
\* start, end of the child), by size descending, and entries of equal size
\* in increasing original index order.
C3_RankingStability ==
  pc \in {"select", "delete", "write", "done"} =>
    /\ OnePerChild(items, inventory.ty.v)
    /\ Descending(items)
    /\ TiesInIndexOrder(items)

\* C4. Abort before mutation: a failure of decode, navigation, ranking
\* (empty list) or selection (no such slot) stops the pipeline there with
\* the buffer untouched and nothing written; the buffer changes only in the
\* one deletion that follows a successful selection, and the output is
\* written only from the patched buffer.
C4_State ==
  /\ (\E step \in {"read", "navigate", "rank", "select"} : FailedAt(step))
       => (data = Original /\ output = None)
  /\ pc \in {"select", "delete", "write", "done"}
       => (Decoded /\ Navigated /\ items # <<>> /\ Len(inventory.ty.v) > 0)
  /\ (data # Original \/ output # None)
       => /\ Decoded /\ Navigated /\ items # <<>>
          /\ \E i \in DOMAIN items : items[i] = item
          /\ data = drain(Original, item.start, item.end)
  /\ output # None => Patched
  /\ pc = "done" => (output.st = "written" /\ output.bytes = data)

C4_Step ==
  /\ ~Failed
  /\ data' # data => (pc = "delete" /\ data = Original)
  /\ output' # output => (pc = "write" /\ data # Original)

C4_AbortBeforeMutation == []C4_State /\ [][C4_Step]_vars

\* The target list has no children: main stopped at the ranking step.
C4_Witness ==
  /\ FailedAt("rank")
  /\ error.why = "Inventory is empty"
  /\ data = Original
  /\ output = None

\* C5. UnexpectedEnd: whenever the buffer is exhausted before a read of
\* the decoder completes, decode returns an error to its caller.
C5_UnexpectedEnd ==
  (FailedAt("read") /\ error.why \in {"UnexpectedEof", "unwrap on UnexpectedEof"})
    => (error.st = "err" /\ error.why = "UnexpectedEof")

\* C6. UnknownTagKind: dispatching a tag id outside 0..12 is a decode
\* failure returned to the caller.
C6_UnknownTagKind ==
  (FailedAt("read") /\ error.why = "index out of bounds") => error.st = "err"

\* The stored length of a Byte/Int/Long array or a List is not negative.
RECURSIVE NoNegativeLength(_, _)
NoNegativeLength(buf, n) ==
  CASE n.ty.kind \in {"ByteArray", "IntArray", "LongArray"} ->
         I32(SubSeq(buf, n.start + 1, n.start + 4)) >= 0
    [] n.ty.kind = "String" ->
         I16(SubSeq(buf, n.start + 1, n.start + 2)) >= 0
    [] n.ty.kind = "List" ->
         /\ I32(SubSeq(buf, n.start + 2, n.start + 5)) >= 0
         /\ \A i \in DOMAIN n.ty.v : NoNegativeLength(buf, n.ty.v[i])
    [] n.ty.kind = "Compound" ->
         \A k \in DOMAIN n.ty.v : NoNegativeLength(buf, n.ty.v[k])
    [] OTHER -> TRUE

\* C7. NegativeLength: a negative count or length prefix makes the decode
\* fail with an error; no decoded array, list or text has one, and the
\* decoder does not take it for an unsigned length.
C7_NegativeLength ==
  /\ Decoded => NoNegativeLength(Original, nbt)
  /\ (FailedAt("read") /\ error.why = "capacity overflow") => error.st = "err"

\* C8. Navigation is failable, not crashing: every failure of the walk
\* root -> "" -> "Inventory" is an error value returned to the caller.
C8_NavigationFailable == FailedAt("navigate") => error.st = "err"

\* C9. The terminator sentinel is never dispatched: read_zero is never
\* invoked, whatever the input.
C9_ZeroNeverDispatched == ~(Failed /\ error.why = "unreachable")

\* One List node: its children are as many as its count field says, all of
\* the declared kind, laid end to end after the 5 bytes of kind and count.
ListExact(buf, n) ==
  LET k == I8(buf[n.start + 1])
      c == I32(SubSeq(buf, n.start + 2, n.start + 5))
      ch == n.ty.v
  IN  c >= 0 =>
        /\ Len(ch) = c
        /\ \A i \in DOMAIN ch : ch[i].ty.kind = KindOf(k)
        /\ \A i \in DOMAIN ch :
             ch[i].start = (IF i = 1 THEN n.start + 5 ELSE ch[i - 1].end)
        /\ n.end = (IF c = 0 THEN n.start + 5 ELSE ch[c].end)

RECURSIVE AllListsExact(_, _)
AllListsExact(buf, n) ==
  CASE n.ty.kind = "List" ->
         /\ ListExact(buf, n)
         /\ \A i \in DOMAIN n.ty.v : AllListsExact(buf, n.ty.v[i])
    [] n.ty.kind = "Compound" ->
         \A k \in DOMAIN n.ty.v : AllListsExact(buf, n.ty.v[k])
    [] OTHER -> TRUE

\* C10. List homogeneity: a decoded List of element kind k and count
\* c >= 0 has exactly c children in buffer order, each of kind k, each
\* starting where the previous one ends; with c = 0 it spans the kind byte
\* and the 4-byte count only.
C10_ListHomogeneity == Decoded => AllListsExact(Original, nbt)

\* A decoded Inventory list of two children.
C10_Witness ==
  /\ pc = "select"
  /\ Len(inventory.ty.v) = 2
  /\ size(inventory) > 5

====
